---- MODULE Spec2Model ----
(***************************************************************************)
(* Model of src/src/models/gen_models.py: the masked multi-head loss       *)
(* BaseMixin.loss (with EmbeddingPredictor.loss) and the recurrent decoder *)
(* DecoderGRU.forward (with GRUCell.forward).                              *)
(*                                                                         *)
(* Tensors are functions over 1-based batch and time indices; predicted    *)
(* columns keep Python's 0-based numbering.  Real numbers are exact        *)
(* rationals <<n, d>> in lowest terms, with <<0, 0>> for the NaN that a    *)
(* 0/0 produces.  The decoder's cells are uninterpreted: a cell's result   *)
(* is the term built from its arguments, so two results are equal exactly  *)
(* when they were computed from the same arguments.                        *)
(***************************************************************************)
EXTENDS Integers, Sequences, FiniteSets, TLC

(***************************************************************************)
(* Bounds of the model.                                                    *)
(***************************************************************************)
BatchSize == 2
MaxT == 3
MaxCat == 2
MaxNum == 2
MaxLayers == 3

(***************************************************************************)
(* Program constants.                                                      *)
(***************************************************************************)
FeaturesEmbDim == 8
VocabSize == 4
LabelSmoothingPct == 15

VARIABLES
    \* configuration (model_conf, data_conf)
    conf,
    \* the batch: per-sequence valid lengths and the payload's key order
    seq_lens, payload_keys,
    \* which of the network outputs of the model the batch comes with
    out_seed,
    \* SeqGen.forward: the decoder's input x and the timesteps of out
    x_in, pred_len,
    \* BaseMixin.loss: position in the method and its locals
    pc, key_pos, num_val_feature, total_mse_loss, delta_mse,
    cross_entropy_losses, total_ce_loss, losses_dict, total_loss,
    \* record of the numeric-loss iterations: <<key, column read, loss>>
    mse_log,
    \* DecoderGRU.forward: position, inputs and locals
    dpc, num_layers, seq_len, given_hx, global_in, global_hidden,
    t, layer, hidden, outs, calls

lossvars == <<conf, seq_lens, payload_keys, out_seed, x_in, pred_len, pc, key_pos, num_val_feature,
              total_mse_loss, delta_mse, cross_entropy_losses, total_ce_loss,
              losses_dict, total_loss, mse_log>>
decvars == <<dpc, num_layers, seq_len, given_hx, global_in, global_hidden,
             t, layer, hidden, outs, calls>>
vars == <<lossvars, decvars>>

(***************************************************************************)
(* Exact arithmetic standing for the tensors' floating point values.       *)
(***************************************************************************)
NaN == <<0, 0>>
IsNaN(a) == a[2] = 0
Abs(n) == IF n < 0 THEN -n ELSE n

RECURSIVE GCD(_, _)
GCD(a, b) == IF b = 0 THEN a ELSE GCD(b, a % b)

\* n / d; a zero denominator only occurs under a zero numerator (an empty
\* mask sums to 0), which gives NaN
Frac(n, d) ==
    IF d = 0 THEN NaN
    ELSE LET g == GCD(Abs(n), d) IN <<n \div g, d \div g>>
FromInt(n) == <<n, 1>>
RAdd(a, b) ==
    IF IsNaN(a) \/ IsNaN(b) THEN NaN
    ELSE Frac(a[1] * b[2] + b[1] * a[2], a[2] * b[2])
RMul(a, b) ==
    IF IsNaN(a) \/ IsNaN(b) THEN NaN
    ELSE Frac(a[1] * b[1], a[2] * b[2])
RDivInt(a, n) == IF IsNaN(a) THEN NaN ELSE Frac(a[1], a[2] * n)

\* sum of f[1..n], integers and rationals
RECURSIVE SumInt(_, _)
SumInt(f, n) == IF n = 0 THEN 0 ELSE f[n] + SumInt(f, n - 1)
RECURSIVE SumRat(_, _)
SumRat(f, n) == IF n = 0 THEN FromInt(0) ELSE RAdd(SumRat(f, n - 1), f[n])

RECURSIVE MaxOf(_, _)
MaxOf(f, n) ==
    IF n = 1 THEN f[1]
    ELSE LET m == MaxOf(f, n - 1) IN IF f[n] > m THEN f[n] ELSE m

(***************************************************************************)
(* Configuration.                                                          *)
(***************************************************************************)
AllEmbNames == <<"Gender", "ICUType", "MechVent">>
AllNumericNames == <<"Age", "Height", "Weight", "Albumin">>

\* (mse_weight, CE_weight, delta_weight): the shipped setting, all ones,
\* each weight zeroed, all zero, and three different weights
WeightConfigs ==
    { <<1, 1, 5>>, <<1, 1, 1>>, <<0, 1, 5>>, <<1, 0, 5>>, <<1, 1, 0>>,
      <<0, 0, 5>>, <<0, 1, 0>>, <<0, 0, 0>>, <<2, 3, 5>> }

EmbDims == {1, FeaturesEmbDim}
OutSeeds == {0, 1}

emb_names == conf.emb_names
numeric_names == conf.numeric_names
num_embeds == Len(emb_names)
all_numeric_size == Len(numeric_names)
all_emb_size == conf.features_emb_dim * num_embeds
input_dim == all_emb_size + all_numeric_size + (IF conf.use_deltas THEN 1 ELSE 0)

SeqElems(s) == {s[i] : i \in 1..Len(s)}
Reverse(s) == [i \in 1..Len(s) |-> s[Len(s) + 1 - i]]

(***************************************************************************)
(* The batch handed to loss: output["input_batch"], output["time_steps"],  *)
(* output["pred"], output["emb_dist"].                                     *)
(***************************************************************************)
Batch == 1..BatchSize
\* padded length of the batch: the longest sequence
T == MaxOf(seq_lens, BatchSize)
\* the predicted sequence has one timestep fewer
PredLen == T - 1

IndexOf(s, x) == CHOOSE i \in 1..Len(s) : s[i] = x

\* payload[key][b][p]: 0 pads every position after the sequence's length;
\* categorical ids are in 1..VocabSize-1, numeric values are positive
payload_at(lens, key, b, p) ==
    IF p > lens[b] THEN 0
    ELSE IF key \in SeqElems(emb_names)
         THEN ((IndexOf(emb_names, key) + b + p) % (VocabSize - 1)) + 1
         ELSE IndexOf(AllNumericNames, key) + 2 * b + p
payload(key, b, p) == payload_at(seq_lens, key, b, p)

\* time_steps[b][p]: increasing event times, -1 after the sequence's length
time_steps_at(lens, b, p) == IF p > lens[b] THEN -1 ELSE p * p + b
time_steps(b, p) == time_steps_at(seq_lens, b, p)

\* output["pred"][b][i][col], col 0-based in 0..input_dim-1
pred_full(b, i, col) == (col + 1) * i + b + out_seed * (col + b * i)

\* output["emb_dist"][name][b][i][c]: the head's distribution at a position,
\* held as the negative log-probability of class c in integer units
emb_dist(name, b, i, c) ==
    (c + 1) * (i + IndexOf(emb_names, name)) + b + out_seed * c * b

(***************************************************************************)
(* BaseMixin.loss, numeric features.                                       *)
(***************************************************************************)
\* width of pred once the trailing delta column has been cut off
PredWidth == input_dim - (IF conf.use_deltas THEN 1 ELSE 0)

\* pred[:, :, -num_val_feature]: Python's index -n counts from the end for
\* n > 0 and is column 0 for n = 0; the result is the 0-based column
PredColumn_stale(nvf) == PredWidth - all_numeric_size
PredColumn_early(nvf) == IF 1 - nvf < 0 THEN PredWidth + 1 - nvf ELSE 1 - nvf
PredColumn(nvf) == IF -nvf < 0 THEN PredWidth - nvf ELSE -nvf

ColumnInRange(col) == 0 <= col /\ col < PredWidth

\* gt_val = values.float()[:, 1:]
gt_val_unshifted(key, b, i) == payload(key, b, i)
gt_val(key, b, i) == payload(key, b, i + 1)

SqErr(x, y) == (x - y) * (x - y)

\* masked_mse.sum(dim=1) / (mask != 0).sum(dim=1), for sequence b
SeqMaskedAvg(key, col, b) ==
    LET masked == [i \in 1..PredLen |->
                     IF gt_val(key, b, i) # 0
                     THEN SqErr(gt_val(key, b, i), pred_full(b, i, col)) ELSE 0]
        mask == [i \in 1..PredLen |-> IF gt_val(key, b, i) # 0 THEN 1 ELSE 0]
    IN Frac(SumInt(masked, PredLen), SumInt(mask, PredLen))

\* (...).mean(): the mean over the sequences of the batch
MaskedMSE(key, col) ==
    RDivInt(SumRat([b \in Batch |-> SeqMaskedAvg(key, col, b)], BatchSize),
            BatchSize)

(***************************************************************************)
(* BaseMixin.loss, time deltas.                                            *)
(***************************************************************************)
\* output["time_steps"].diff(1)
gt_delta(b, i) == time_steps(b, i + 1) - time_steps(b, i)
\* pred[:, :, -1]
pred_delta(b, i) == pred_full(b, i, input_dim - 1)
\* (output["time_steps"] != -1)[:, 1:]
delta_mask(b, i) == IF time_steps(b, i + 1) # -1 THEN 1 ELSE 0

DeltaSqSum(b) ==
    SumInt([i \in 1..PredLen |->
              SqErr(gt_delta(b, i), pred_delta(b, i)) * delta_mask(b, i)],
           PredLen)
DeltaCount(b) == SumInt([i \in 1..PredLen |-> delta_mask(b, i)], PredLen)

\* the mean of the per-sequence averages
DeltaMSE_perseq ==
    RDivInt(SumRat([b \in Batch |-> Frac(DeltaSqSum(b), DeltaCount(b))],
                   BatchSize), BatchSize)
\* delta_masked.sum() / (mask[:, 1:] != 0).sum()
DeltaMSE ==
    Frac(SumInt([b \in Batch |-> DeltaSqSum(b)], BatchSize),
         SumInt([b \in Batch |-> DeltaCount(b)], BatchSize))

(***************************************************************************)
(* Cross entropy.                                                          *)
(***************************************************************************)
\* EmbeddingPredictor.criterion and BaseMixin.ce_fn
criterion == [label_smoothing |-> 0, ignore_index |-> 0]
ce_fn == [label_smoothing |-> LabelSmoothingPct, ignore_index |-> 0]

\* shifted_labels = padded_batch.payload[name].long()[:, 1:]
shifted_labels(name, b, i) == payload(name, b, i + 1)

\* nn.CrossEntropyLoss(reduction="mean") under crit: over the positions whose
\* label is not ignore_index, the mean of
\*   (1 - s) * nll[label] + s * (sum over classes of nll) / VocabSize
\* with s = label_smoothing / 100
CrossEntropy(crit, name) ==
    LET kept(b, i) == shifted_labels(name, b, i) # crit.ignore_index
        allnll(b, i) ==
            SumInt([c \in 1..VocabSize |-> emb_dist(name, b, i, c - 1)], VocabSize)
        term(b, i) ==
            IF kept(b, i)
            THEN (100 - crit.label_smoothing) * VocabSize
                     * emb_dist(name, b, i, shifted_labels(name, b, i))
                 + crit.label_smoothing * allnll(b, i)
            ELSE 0
        num == SumInt([b \in Batch |->
                  SumInt([i \in 1..PredLen |-> term(b, i)], PredLen)], BatchSize)
        cnt == SumInt([b \in Batch |->
                  SumInt([i \in 1..PredLen |-> IF kept(b, i) THEN 1 ELSE 0],
                         PredLen)], BatchSize)
    IN Frac(num, 100 * VocabSize * cnt)

\* EmbeddingPredictor.loss: one entry per key of the distribution mapping,
\* which forward builds with one key per emb_names entry
EmbeddingPredictor_loss ==
    [name \in SeqElems(emb_names) |-> CrossEntropy(criterion, name)]

\* torch.sum(torch.cat([...])) over the mapping's values
SumValues(d) ==
    SumRat([j \in 1..num_embeds |-> d[emb_names[j]]], num_embeds)

(***************************************************************************)
(* The breakdown and the total.                                            *)
(***************************************************************************)
BaseDict(mse, ce, delta) ==
    [k \in {"total_mse_loss", "total_CE_loss", "delta_loss"} |->
        IF k = "total_mse_loss" THEN mse
        ELSE IF k = "total_CE_loss" THEN ce
        ELSE RMul(FromInt(conf.delta_weight), delta)]

\* losses_dict = {...}; losses_dict.update(cross_entropy_losses)
LossesDict_noupdate(mse, ce, delta, cel) == BaseDict(mse, ce, delta)
LossesDict(mse, ce, delta, cel) == cel @@ BaseDict(mse, ce, delta)

\* mse_weight * losses_dict["total_mse_loss"] + CE_weight * total_ce_loss
\*   + delta_weight * delta_mse
TotalLoss_unweighted(d, ce, delta) ==
    RAdd(RAdd(d["total_mse_loss"], RMul(FromInt(conf.CE_weight), ce)),
         RMul(FromInt(conf.delta_weight), delta))
TotalLoss(d, ce, delta) ==
    RAdd(RAdd(RMul(FromInt(conf.mse_weight), d["total_mse_loss"]),
              RMul(FromInt(conf.CE_weight), ce)),
         RMul(FromInt(conf.delta_weight), delta))

(***************************************************************************)
(* SeqGen.forward: the decoder's input and the length of the prediction.   *)
(***************************************************************************)
\* the processor's feature vector of sequence b at position p: a function
\* of the event at that position alone, one component per payload key
processor_x(keys, pl, b, p) == <<"x", [j \in 1..Len(keys) |-> pl[keys[j]][b][p]]>>

\* torch.cat([time_steps.diff(1), zeros], dim=1): the channel appended at
\* position p of a batch of padded length len
delta_feature(ts, len, b, p) == IF p < len THEN ts[b][p + 1] - ts[b][p] ELSE 0

\* x[b][p] as the decoder gets it
DecoderInput(keys, pl, ts, len) ==
    [b \in Batch |-> [p \in 1..len |->
        IF conf.use_deltas
        THEN <<processor_x(keys, pl, b, p), delta_feature(ts, len, b, p)>>
        ELSE <<processor_x(keys, pl, b, p)>>]]

\* the decoder returns one vector per input timestep and
\* out = self.out_proj(dec_out)[:, :-1, :] drops the last one
OutLen_full(declen) == declen
OutLen(declen) == declen - 1

\* the tensors of the batch
PayloadTensor(lens, len) ==
    [key \in SeqElems(payload_keys) |->
        [b \in Batch |-> [p \in 1..len |-> payload_at(lens, key, b, p)]]]
TimeStepsTensor(lens, len) ==
    [b \in Batch |-> [p \in 1..len |-> time_steps_at(lens, b, p)]]

(***************************************************************************)
(* Initial states of the loss: a configuration and a batch.                *)
(***************************************************************************)
Configs ==
    { [emb_names |-> SubSeq(AllEmbNames, 1, nc),
       numeric_names |-> SubSeq(AllNumericNames, 1, nn),
       features_emb_dim |-> e,
       use_deltas |-> ud,
       mse_weight |-> w[1], CE_weight |-> w[2], delta_weight |-> w[3]] :
      nc \in 1..MaxCat, nn \in 1..MaxNum, e \in EmbDims, ud \in BOOLEAN,
      w \in WeightConfigs }

\* the payload's keys: the batch loader supplies one tensor per configured
\* feature, categorical or numeric, and the time steps apart from them
PayloadKeySet(cf) == SeqElems(cf.emb_names) \cup SeqElems(cf.numeric_names)

\* the payload's iteration order: nothing in loss fixes it, it is the order
\* the batch was assembled in
PayloadOrders(cf) ==
    { cf.emb_names \o cf.numeric_names,
      cf.numeric_names \o cf.emb_names,
      Reverse(cf.numeric_names) \o cf.emb_names }

DecoderIdle ==
    /\ dpc = "off"
    /\ num_layers = 0
    /\ seq_len = 0
    /\ given_hx = FALSE
    /\ global_in = <<>>
    /\ global_hidden = <<>>
    /\ t = 0
    /\ layer = 0
    /\ hidden = <<>>
    /\ outs = <<>>
    /\ calls = <<>>

Init ==
    /\ conf \in Configs
    /\ seq_lens \in [Batch -> 1..MaxT]
    /\ payload_keys \in PayloadOrders(conf)
    /\ SeqElems(payload_keys) = PayloadKeySet(conf)
    /\ out_seed \in OutSeeds
    /\ x_in = <<>>
    /\ pred_len = 0
    /\ pc = "forward"
    /\ key_pos = 1
    /\ num_val_feature = 0
    /\ total_mse_loss = FromInt(0)
    /\ delta_mse = FromInt(0)
    /\ cross_entropy_losses = <<>>
    /\ total_ce_loss = FromInt(0)
    /\ losses_dict = <<>>
    /\ total_loss = FromInt(0)
    /\ mse_log = <<>>
    /\ DecoderIdle

(***************************************************************************)
(* BaseMixin.loss, step by step.                                           *)
(***************************************************************************)
\* SeqGen.forward, lines 194-238: the output that loss is then called with
Forward ==
    /\ pc = "forward"
    /\ x_in' = DecoderInput(payload_keys, PayloadTensor(seq_lens, T),
                            TimeStepsTensor(seq_lens, T), T)
    /\ pred_len' = OutLen(T)
    /\ pc' = "start"
    /\ UNCHANGED <<conf, seq_lens, payload_keys, out_seed, key_pos,
                   num_val_feature, total_mse_loss, delta_mse,
                   cross_entropy_losses, total_ce_loss, losses_dict,
                   total_loss, mse_log>>
    /\ UNCHANGED decvars

\* lines 129-138: cut the delta column off, total_mse_loss = 0,
\* num_val_feature = all_numeric_size
LossEnter ==
    /\ pc = "start"
    /\ total_mse_loss' = FromInt(0)
    /\ num_val_feature' = all_numeric_size
    /\ key_pos' = 1
    /\ pc' = "mse"
    /\ UNCHANGED <<conf, seq_lens, payload_keys, out_seed, x_in, pred_len, delta_mse, cross_entropy_losses,
                   total_ce_loss, losses_dict, total_loss, mse_log>>
    /\ UNCHANGED decvars

\* lines 139-153: one iteration of the loop over the payload's items
MseIter ==
    /\ pc = "mse"
    /\ key_pos <= Len(payload_keys)
    /\ LET key == payload_keys[key_pos]
           col == PredColumn(num_val_feature)
       IN IF key \in SeqElems(emb_names)
          THEN /\ pc' = IF key_pos = Len(payload_keys) THEN "delta" ELSE "mse"
               /\ UNCHANGED <<total_mse_loss, num_val_feature, mse_log>>
          ELSE IF ~ColumnInRange(col)
          THEN \* IndexError
               /\ pc' = "raised"
               /\ UNCHANGED <<total_mse_loss, num_val_feature, mse_log>>
          ELSE /\ total_mse_loss' = RAdd(total_mse_loss, MaskedMSE(key, col))
               /\ num_val_feature' = num_val_feature - 1
               /\ mse_log' = Append(mse_log,
                     [key |-> key, col |-> col, loss |-> MaskedMSE(key, col)])
               /\ pc' = IF key_pos = Len(payload_keys) THEN "delta" ELSE "mse"
    /\ key_pos' = key_pos + 1
    /\ UNCHANGED <<conf, seq_lens, payload_keys, out_seed, x_in, pred_len, delta_mse, cross_entropy_losses,
                   total_ce_loss, losses_dict, total_loss>>
    /\ UNCHANGED decvars

\* lines 155-163
DeltaStep ==
    /\ pc = "delta"
    /\ delta_mse' = IF conf.use_deltas THEN DeltaMSE ELSE FromInt(0)
    /\ pc' = "ce"
    /\ UNCHANGED <<conf, seq_lens, payload_keys, out_seed, x_in, pred_len, key_pos, num_val_feature,
                   total_mse_loss, cross_entropy_losses, total_ce_loss,
                   losses_dict, total_loss, mse_log>>
    /\ UNCHANGED decvars

\* lines 165-171
CrossEntropyStep ==
    /\ pc = "ce"
    /\ cross_entropy_losses' = EmbeddingPredictor_loss
    /\ total_ce_loss' = SumValues(EmbeddingPredictor_loss)
    /\ pc' = "dict"
    /\ UNCHANGED <<conf, seq_lens, payload_keys, out_seed, x_in, pred_len, key_pos, num_val_feature,
                   total_mse_loss, delta_mse, losses_dict, total_loss, mse_log>>
    /\ UNCHANGED decvars

\* lines 173-187
Aggregate ==
    /\ pc = "dict"
    /\ LET d == LossesDict(total_mse_loss, total_ce_loss, delta_mse,
                           cross_entropy_losses)
           total == TotalLoss(d, total_ce_loss, delta_mse)
       IN /\ total_loss' = total
          /\ losses_dict' = ("total_loss" :> total) @@ d
    /\ pc' = "done"
    /\ UNCHANGED <<conf, seq_lens, payload_keys, out_seed, x_in, pred_len, key_pos, num_val_feature,
                   total_mse_loss, delta_mse, cross_entropy_losses,
                   total_ce_loss, mse_log>>
    /\ UNCHANGED decvars

Next == Forward \/ LossEnter \/ MseIter \/ DeltaStep \/ CrossEntropyStep \/ Aggregate

Spec == Init /\ [][Next]_vars

(***************************************************************************)
(* GRUCell.forward and DecoderGRU.forward.                                 *)
(***************************************************************************)
\* input[:, tt, :], the caller's global context and initial states
input(tt) == <<"x", tt>>
GlobalContexts == {<<"g", 0>>, <<"g", 1>>}
Zeros == <<"zeros", 0>>
\* h0[l]: zeros when hx is None, the caller's hx[l] otherwise
h0(l) == IF given_hx THEN <<"hx", l>> ELSE Zeros

\* GRUCell.forward of layer l's cell: the hidden state is first mixed with
\* the global context, the gates then combine the input with the mixed state
GRUCell(l, inp, g, hx) ==
    LET mixed == <<"mix_global", l, g, hx>>
    IN <<"hy", l, inp, mixed>>

\* GRUCell.forward writes to none of its arguments: the global context the
\* decoder holds after a cell has run
GlobalAfter_inplace(g, hy) == hy
GlobalAfter(g, hy) == g

\* the first argument of the cell call of (layer, t)
CellInput_same(l, tt, hid) == input(tt)
CellInput(l, tt, hid) == IF l = 0 THEN input(tt) ELSE hid[l - 1]

\* hidden[layer] = hidden_l (lines 395 and 397 store the same value twice)
StoreHidden_below(hid, l, hidden_l) ==
    [k \in DOMAIN hid |-> IF k = l \/ k = l - 1 THEN hidden_l ELSE hid[k]]
StoreHidden(hid, l, hidden_l) == [hid EXCEPT ![l] = hidden_l]

\* outs.append(hidden_l.unsqueeze(1)) after the loop over the layers
TimestepOutput_bottom(hidden_l, hid) == hid[0]
TimestepOutput(hidden_l, hid) == hidden_l

LossIdle ==
    /\ conf = [emb_names |-> <<>>, numeric_names |-> <<>>,
               features_emb_dim |-> FeaturesEmbDim, use_deltas |-> FALSE,
               mse_weight |-> 1, CE_weight |-> 1, delta_weight |-> 1]
    /\ seq_lens = [b \in Batch |-> 1]
    /\ payload_keys = <<>>
    /\ out_seed = 0
    /\ x_in = <<>>
    /\ pred_len = 0
    /\ pc = "off"
    /\ key_pos = 1
    /\ num_val_feature = 0
    /\ total_mse_loss = FromInt(0)
    /\ delta_mse = FromInt(0)
    /\ cross_entropy_losses = <<>>
    /\ total_ce_loss = FromInt(0)
    /\ losses_dict = <<>>
    /\ total_loss = FromInt(0)
    /\ mse_log = <<>>

InitDec ==
    /\ LossIdle
    /\ dpc = "start"
    /\ num_layers \in 1..MaxLayers
    /\ seq_len \in 1..MaxT
    /\ given_hx \in BOOLEAN
    /\ global_in \in GlobalContexts
    /\ global_hidden = global_in
    /\ t = 0
    /\ layer = 0
    /\ hidden = <<>>
    /\ outs = <<>>
    /\ calls = <<>>

\* lines 369-383
DecEnter ==
    /\ dpc = "start"
    /\ hidden' = [l \in 0..num_layers - 1 |-> h0(l)]
    /\ outs' = <<>>
    /\ t' = 0
    /\ layer' = 0
    /\ dpc' = IF seq_len = 0 THEN "cat" ELSE "cell"
    /\ UNCHANGED <<num_layers, seq_len, given_hx, global_in, global_hidden, calls>>
    /\ UNCHANGED lossvars

\* lines 386-399: the cell of (t, layer), and the append that ends timestep t
\* once the last layer has run
CellStep ==
    /\ dpc = "cell"
    /\ LET inp == CellInput(layer, t, hidden)
           hidden_l == GRUCell(layer, inp, global_hidden, hidden[layer])
           hid == StoreHidden(hidden, layer, hidden_l)
       IN /\ hidden' = hid
          /\ calls' = Append(calls,
                [t |-> t, layer |-> layer, input |-> inp,
                 global |-> global_hidden, hx |-> hidden[layer],
                 out |-> hidden_l])
          /\ global_hidden' = GlobalAfter(global_hidden, hidden_l)
          /\ IF layer = num_layers - 1
             THEN /\ outs' = Append(outs, TimestepOutput(hidden_l, hid))
                  /\ layer' = 0
                  /\ t' = t + 1
                  /\ dpc' = IF t + 1 = seq_len THEN "cat" ELSE "cell"
             ELSE /\ layer' = layer + 1
                  /\ UNCHANGED <<outs, t, dpc>>
    /\ UNCHANGED <<num_layers, seq_len, given_hx, global_in>>
    /\ UNCHANGED lossvars

\* line 401: torch.cat raises on an empty list
DecReturn ==
    /\ dpc = "cat"
    /\ dpc' = IF outs = <<>> THEN "raised" ELSE "done"
    /\ UNCHANGED <<num_layers, seq_len, given_hx, global_in, global_hidden,
                   t, layer, hidden, outs, calls>>
    /\ UNCHANGED lossvars

NextDec == DecEnter \/ CellStep \/ DecReturn

SpecDec == InitDec /\ [][NextDec]_vars

(***************************************************************************)
(* Properties of BaseMixin.loss (specification Spec).                      *)
(***************************************************************************)
Returned == pc = "done"
AfterMse == pc \in {"delta", "ce", "dict", "done"}
AfterDelta == pc \in {"ce", "dict", "done"}
AfterCE == pc \in {"dict", "done"}

W(x) == FromInt(x)
NumericSum == SumRat([j \in 1..Len(mse_log) |-> mse_log[j].loss], Len(mse_log))
CategoricalSum ==
    SumRat([j \in 1..num_embeds |-> cross_entropy_losses[emb_names[j]]],
           num_embeds)

RECURSIVE SumOver(_, _)
SumOver(S, f) ==
    IF S = {} THEN 0
    ELSE LET x == CHOOSE y \in S : TRUE IN f[x] + SumOver(S \ {x}, f)

\* the positions (b, i) whose next time step is not the sentinel -1
ValidDeltaPos ==
    {q \in Batch \X (1..PredLen) : time_steps(q[1], q[2] + 1) # -1}
FusedDelta ==
    Frac(SumOver(ValidDeltaPos,
                 [q \in ValidDeltaPos |->
                    SqErr(time_steps(q[1], q[2] + 1) - time_steps(q[1], q[2]),
                          pred_full(q[1], q[2], input_dim - 1))]),
         Cardinality(ValidDeltaPos))
DeltaComponent == IF conf.use_deltas THEN FusedDelta ELSE FromInt(0)

\* C1: the total returned by loss is mse_weight * (sum of the numeric
\* features' masked MSE) + CE_weight * (sum of the categorical features'
\* cross-entropy) + delta_weight * (delta loss), the delta loss being 0 when
\* use_deltas is off.
C1_TotalIsWeightedSum ==
    Returned =>
        total_loss = RAdd(RAdd(RMul(W(conf.mse_weight), NumericSum),
                               RMul(W(conf.CE_weight), CategoricalSum)),
                          RMul(W(conf.delta_weight), DeltaComponent))

C1_Witness ==
    /\ Returned
    /\ conf.use_deltas
    /\ <<conf.mse_weight, conf.CE_weight, conf.delta_weight>> = <<2, 3, 5>>
    /\ all_numeric_size = 2
    /\ ~IsNaN(total_loss)
    /\ ~IsNaN(NumericSum) /\ NumericSum # FromInt(0)
    /\ CategoricalSum # FromInt(0)
    /\ DeltaComponent # FromInt(0)

BreakdownKeys ==
    {"total_mse_loss", "total_CE_loss", "delta_loss", "total_loss"}
        \cup SeqElems(emb_names)

\* C2: every call of loss that returns yields a mapping holding the keys
\* total_mse_loss, total_CE_loss, delta_loss, total_loss and one key per
\* configured categorical feature, whatever the weights and use_deltas.
C2_AllKeysPresent == Returned => BreakdownKeys \subseteq DOMAIN losses_dict

C2_Witness ==
    /\ Returned
    /\ ~conf.use_deltas
    /\ <<conf.mse_weight, conf.CE_weight, conf.delta_weight>> = <<0, 0, 0>>
    /\ num_embeds = 2
    /\ DOMAIN losses_dict = BreakdownKeys

\* C3: the total_mse_loss, total_CE_loss and delta_loss entries are the
\* unweighted components (the delta_loss entry does not depend on
\* delta_weight), so total_loss = mse_weight * entry[total_mse_loss]
\* + CE_weight * entry[total_CE_loss] + delta_weight * entry[delta_loss].
C3_EntriesUnweighted ==
    Returned =>
        /\ losses_dict["total_mse_loss"] = NumericSum
        /\ losses_dict["total_CE_loss"] = CategoricalSum
        /\ losses_dict["delta_loss"] = DeltaComponent
        /\ total_loss =
             RAdd(RAdd(RMul(W(conf.mse_weight), losses_dict["total_mse_loss"]),
                       RMul(W(conf.CE_weight), losses_dict["total_CE_loss"])),
                  RMul(W(conf.delta_weight), losses_dict["delta_loss"]))

\* C4: the categorical losses computed inside the full model loss use the
\* criterion with label smoothing 0.15 and ignore_index 0 (a direct call of
\* EmbeddingPredictor.loss uses the one without smoothing).
C4_FullLossUsesSmoothing ==
    AfterCE =>
        \A name \in SeqElems(emb_names) :
            /\ cross_entropy_losses[name] = CrossEntropy(ce_fn, name)
            /\ EmbeddingPredictor_loss[name] = CrossEntropy(criterion, name)

\* the sequences with a non-padded shifted position of a numeric feature
Remaining(key) ==
    {b \in Batch : \E i \in 1..PredLen : gt_val(key, b, i) # 0}
ExcludedMean(key, col) ==
    RDivInt(SumRat([b \in Batch |->
                      IF b \in Remaining(key) THEN SeqMaskedAvg(key, col, b)
                      ELSE FromInt(0)], BatchSize),
            Cardinality(Remaining(key)))

\* C5: a sequence whose every shifted position of a numeric feature is the
\* padding 0 is left out of that feature's loss: the loss is the mean of the
\* per-sequence masked averages over the remaining sequences.
C5_AllPaddedExcluded ==
    \A j \in 1..Len(mse_log) :
        Remaining(mse_log[j].key) # {} =>
            mse_log[j].loss = ExcludedMean(mse_log[j].key, mse_log[j].col)

IsNumericKey(key) == key \notin SeqElems(emb_names)
NonCatKeys == SelectSeq(payload_keys, IsNumericKey)

\* C9 as stated: the numeric feature that is k-th in the configured numeric
\* order is compared against column C*E + k.
C9_ColumnByConfiguredOrder ==
    \A j \in 1..Len(mse_log) :
        mse_log[j].col = all_emb_size + IndexOf(numeric_names, mse_log[j].key) - 1

\* C9, amended: the numeric feature that is k-th among the payload's
\* non-categorical keys, in the payload's iteration order, is compared
\* against column C*E + k of pred (the delta column cut off); different
\* numeric features are compared against different columns.
C9_ColumnByPayloadOrder ==
    /\ Len(mse_log) <= Len(NonCatKeys)
    /\ AfterMse => Len(mse_log) = Len(NonCatKeys)
    /\ \A j \in 1..Len(mse_log) :
          /\ mse_log[j].key = NonCatKeys[j]
          /\ j <= all_numeric_size => mse_log[j].col = all_emb_size + (j - 1)
          /\ mse_log[j].loss = MaskedMSE(NonCatKeys[j], all_emb_size + (j - 1))
    /\ \A j, k \in 1..Len(mse_log) :
          mse_log[j].key # mse_log[k].key => mse_log[j].col # mse_log[k].col

C9_Witness ==
    /\ Returned
    /\ conf.use_deltas
    /\ num_embeds = 2
    /\ Len(mse_log) = 2
    /\ NonCatKeys # numeric_names
    /\ mse_log[2].col = all_emb_size + 1
    /\ mse_log[1].loss # mse_log[2].loss

RECURSIVE LayerState(_, _)
LayerState(l, tt) ==
    <<"hy", l,
      IF l = 0 THEN input(tt) ELSE LayerState(l - 1, tt),
      <<"mix_global", l, global_in,
        IF tt = 0 THEN h0(l) ELSE LayerState(l, tt - 1)>> >>

\* C6: the k-th cell call is that of timestep (k-1) div L and layer
\* (k-1) mod L; it gets the layer's own state as its call of the previous
\* timestep left it (the initial state at timestep 0), and as input
\* input[t] for layer 0 and the output of layer l-1 at the same timestep
\* otherwise.
C6_CellOrderAndInputs ==
    dpc # "off" =>
    \A k \in 1..Len(calls) :
        LET tt == (k - 1) \div num_layers
            l == (k - 1) % num_layers
        IN /\ calls[k].t = tt
           /\ calls[k].layer = l
           /\ calls[k].hx = (IF tt = 0 THEN h0(l) ELSE calls[k - num_layers].out)
           /\ calls[k].input = (IF l = 0 THEN input(tt) ELSE calls[k - 1].out)
           /\ calls[k].out = LayerState(l, tt)

C6_Witness ==
    /\ dpc = "done"
    /\ num_layers = 3
    /\ seq_len = 3
    /\ Len(calls) = 9
    /\ calls[9].input = calls[8].out
    /\ calls[9].hx = calls[6].out

C8_GlobalContextReadOnly ==
    dpc # "off" =>
        /\ global_hidden = global_in
        /\ \A k \in 1..Len(calls) : calls[k].global = global_in

C8_Witness ==
    /\ dpc = "done"
    /\ num_layers >= 2
    /\ seq_len >= 2
    /\ Len(calls) = num_layers * seq_len
    /\ global_hidden = global_in

\* the cell calls made so far by layer l
CallsOf(l) == {k \in 1..Len(calls) : calls[k].layer = l}
LastOf(S) == CHOOSE k \in S : \A j \in S : j <= k

\* C13: each layer's state starts as the zero vector when no initial state
\* is supplied and as the caller's vector for that layer otherwise, and is
\* then replaced once per timestep by the result of the layer's own cell:
\* after T timesteps every layer has been updated T times and the decoder
\* has made T * num_layers cell calls.
C13_OneUpdatePerTimestep ==
    dpc \in {"cell", "cat", "done"} =>
        /\ \A l \in 0..num_layers - 1 :
              /\ Cardinality(CallsOf(l)) = (IF l < layer THEN t + 1 ELSE t)
              /\ hidden[l] =
                   IF CallsOf(l) = {}
                   THEN (IF given_hx THEN <<"hx", l>> ELSE <<"zeros", 0>>)
                   ELSE calls[LastOf(CallsOf(l))].out
              /\ \A k \in CallsOf(l) :
                    /\ calls[k].out[1] = "hy"
                    /\ calls[k].out[2] = l
                    /\ calls[k].out # calls[k].hx
        /\ dpc \in {"cat", "done"} =>
              /\ t = seq_len
              /\ Len(calls) = seq_len * num_layers
              /\ \A l \in 0..num_layers - 1 : Cardinality(CallsOf(l)) = seq_len

C13_Witness ==
    /\ dpc = "done"
    /\ given_hx
    /\ num_layers = 3
    /\ seq_len = 3
    /\ Len(calls) = 9
    /\ calls[1].hx = <<"hx", 0>>
    /\ hidden[1] = calls[8].out

(***************************************************************************)
(* Properties of SeqGen.forward followed by BaseMixin.loss (Spec).         *)
(***************************************************************************)
AfterForward == pc # "forward" /\ pc # "off"

\* the batch with the value at ground-truth position 0 (the first of the
\* 1-based positions) blotted out
TargetOf(key, b, p) == IF p = 1 THEN -7 ELSE payload(key, b, p)

\* pairs (prediction position i, ground-truth position i + 1) of sequence b
\* whose target is not the padding 0
PairsOf(key, b) == {i \in 1..T - 1 : TargetOf(key, b, i + 1) # 0}
AllPairs(key) == {q \in Batch \X (1..T - 1) : q[2] \in PairsOf(key, q[1])}

AlignedMSE(key, col) ==
    RDivInt(SumRat([b \in Batch |->
                Frac(SumOver(PairsOf(key, b),
                             [i \in PairsOf(key, b) |->
                                SqErr(TargetOf(key, b, i + 1),
                                      pred_full(b, i, col))]),
                     Cardinality(PairsOf(key, b)))], BatchSize),
            BatchSize)

AlignedCE(name) ==
    Frac(SumOver(AllPairs(name),
                 [q \in AllPairs(name) |->
                    emb_dist(name, q[1], q[2], TargetOf(name, q[1], q[2] + 1))]),
         Cardinality(AllPairs(name)))

\* C11: for a batch of padded length T the prediction has T-1 timesteps, and
\* in the numeric, categorical and delta losses the prediction at position i
\* is compared against the ground truth of timestep i+1; ground-truth
\* position 0 is never a target.
C11_PredictionShiftedByOne ==
    AfterForward =>
        /\ pred_len = T - 1
        /\ pred_len = PredLen
        /\ \A j \in 1..Len(mse_log) :
              mse_log[j].loss = AlignedMSE(mse_log[j].key, mse_log[j].col)
        /\ AfterCE =>
              \A name \in SeqElems(emb_names) :
                  cross_entropy_losses[name] = AlignedCE(name)
        /\ (AfterDelta /\ conf.use_deltas) => delta_mse = FusedDelta

C11_Witness ==
    /\ Returned
    /\ conf.use_deltas
    /\ T = 3
    /\ pred_len = 2
    /\ Len(mse_log) = 2
    /\ \A j \in 1..2 : ~IsNaN(mse_log[j].loss) /\ mse_log[j].loss # FromInt(0)
    /\ ~IsNaN(delta_mse)
    /\ \A name \in SeqElems(emb_names) : ~IsNaN(cross_entropy_losses[name])

\* a second batch: other lengths, and event times moved by bump at the
\* positions after from
Twins ==
    [lens : [Batch -> 1..MaxT], from : 1..MaxT, bump : {0, 1}]
TwinT(tw) == MaxOf(tw.lens, BatchSize)
TwinTimes(tw) ==
    [b \in Batch |-> [p \in 1..TwinT(tw) |->
        IF p > tw.from /\ time_steps_at(tw.lens, b, p) # -1
        THEN time_steps_at(tw.lens, b, p) + tw.bump
        ELSE time_steps_at(tw.lens, b, p)]]
TwinInput(tw) ==
    DecoderInput(payload_keys, PayloadTensor(tw.lens, TwinT(tw)),
                 TwinTimes(tw), TwinT(tw))

\* the two batches hold the same events at the positions up to i
AgreeUpTo(tw, i) ==
    \A b \in Batch : \A p \in 1..i :
        /\ TwinTimes(tw)[b][p] = time_steps(b, p)
        /\ \A key \in SeqElems(payload_keys) :
              payload_at(tw.lens, key, b, p) = payload(key, b, p)

\* C12: the decoder's input at position i is a function of the batch's
\* events at the positions up to i only: two batches that agree there give
\* the same input vector at position i, also with the time-delta channel.
C12_DecoderInputCausal ==
    AfterForward =>
        \A tw \in Twins :
            \A i \in 1..(IF T < TwinT(tw) THEN T ELSE TwinT(tw)) :
                AgreeUpTo(tw, i) =>
                    \A b \in Batch : x_in[b][i] = TwinInput(tw)[b][i]

NumericBlock == all_emb_size..(all_emb_size + all_numeric_size - 1)

====
